---------------------------- MODULE Spec2Model ----------------------------
(***************************************************************************)
(* Two-agent conversation graph (src/agent.py) driven by main()            *)
(* (src/run_agent.py).                                                     *)
(*                                                                         *)
(* Text is modelled as a sequence of tokens.  The tokens that the code     *)
(* treats specially are kept atomic: the three speaker labels, the space   *)
(* and the newline; every other token is ordinary text.                    *)
(***************************************************************************)
EXTENDS Integers, Sequences, FiniteSets, TLC

VARIABLES
    messages,          \* ConversationState["messages"]
    current_speaker,   \* ConversationState["current_speaker"]
    turn_count,        \* ConversationState["turn_count"]
    max_turns,         \* ConversationState["max_turns"]
    summary_interval,  \* ConversationState["summary_interval"]
    pc,                \* node the graph runs next, "END", or "aborted"
    sent,              \* message list of the last model.invoke call
    reply,             \* what that call returned (<<>>: nothing, it raised)
    mainpc,            \* position of main() in run_agent.py
    result,            \* value app.invoke returned to main()
    document,          \* markdown document written by main()
    norm               \* a call of clean_response_content on its own

vars == <<messages, current_speaker, turn_count, max_turns, summary_interval,
          pc, sent, reply, mainpc, result, document, norm>>

-----------------------------------------------------------------------------
(* Bounds of the model *)

MaxTurns == 4
MaxInterval == 4
MaxFairTurns == 3    \* largest max_turns of the runs checked for termination
MaxLen == 3          \* longest raw string handed to the normalizer alone
MaxFragments == 2    \* longest fragment list handed to the normalizer alone

-----------------------------------------------------------------------------
(* Text *)

L1 == "[Agent 1]:"
L2 == "[Agent 2]:"
LS == "[Summarizer]:"
SP == " "
NL == "\n"

Fallback1 == <<"I'd like to hear your thoughts on this topic.">>
Fallback2 == <<"That's an interesting point. Let me share my perspective on this.">>
FallbackS == <<"Summary: The agents have been discussing various aspects of the topic.">>

\* \s of the regular expressions and the characters str.strip() removes
IsSpace(t) == t \in {SP, NL}

\* \[Agent \d\]: of the regular expressions
IsAgentLabel(t) == t \in {L1, L2}

RECURSIVE LStrip(_)
LStrip(s) == IF s # <<>> /\ IsSpace(Head(s)) THEN LStrip(Tail(s)) ELSE s

RECURSIVE RStrip(_)
RStrip(s) ==
    IF s # <<>> /\ IsSpace(s[Len(s)]) THEN RStrip(SubSeq(s, 1, Len(s) - 1)) ELSE s

\* str.strip()
Strip(s) == RStrip(LStrip(s))

\* re.sub(r'^\[Agent \d\]:\s*', '', s)
SubLeadingLabel(s) ==
    IF s # <<>> /\ IsAgentLabel(Head(s)) THEN LStrip(Tail(s)) ELSE s

\* re.sub(r'\n\[Agent \d\]:\s*.*$', '', s, flags=re.DOTALL)
SubTrailingLabel(s) ==
    LET hits == {i \in 1..(Len(s) - 1) : s[i] = NL /\ IsAgentLabel(s[i + 1])}
    IN  IF hits = {} THEN s
        ELSE SubSeq(s, 1, (CHOOSE i \in hits : \A j \in hits : i <= j) - 1)

\* "[Agent 1]" in s, "[Agent 2]" in s, "[Summarizer]" in s
Contains(s, label) == \E i \in 1..Len(s) : s[i] = label

RECURSIVE Concat(_)
Concat(ss) == IF ss = <<>> THEN <<>> ELSE Head(ss) \o Concat(Tail(ss))

-----------------------------------------------------------------------------
(* Raw generation results: response.content is a str, a list of blocks, or *)
(* something else (val is then its str() form).  A block is an object with *)
(* a text attribute, a dict (with or without a 'text' key) or another      *)
(* value.                                                                  *)

StrContent(s) == [kind |-> "str", val |-> s]
ListContent(bs) == [kind |-> "list", val |-> bs]
OtherContent(r) == [kind |-> "other", val |-> r]

\* a block: text is its text attribute or 'text' entry, repr is str(block)
TextBlock(s) == [shape |-> "attr", text |-> s, repr |-> <<"<block>">>]
DictBlock(s) == [shape |-> "dict", text |-> s, repr |-> <<"{'text': ...}">>]
BareDict(r) == [shape |-> "dict_no_text", text |-> <<>>, repr |-> r]
StrBlock(s) == [shape |-> "other", text |-> <<>>, repr |-> s]

\* BlockText that only knows objects with a text attribute
BlockText_attr_only(block) ==
    IF block.shape = "attr" THEN block.text ELSE block.repr

\* the text one block contributes to the joined content
BlockText(block) ==
    IF block.shape = "attr" THEN block.text
    ELSE IF block.shape = "dict" THEN block.text
    ELSE block.repr

Responses ==
    { StrContent(<<"x">>),
      StrContent(<<>>),
      StrContent(<<SP, NL>>),
      StrContent(<<L1, SP>>),
      StrContent(<<"x", NL, L2, SP, "y">>),
      StrContent(<<L2, SP, L1, SP, "x">>),
      ListContent(<<TextBlock(<<"x">>)>>) }

clean_response_content(response) ==
    LET content ==
            IF response.kind = "str" THEN response.val
            ELSE IF response.kind = "list"
                 THEN Concat([i \in 1..Len(response.val) |-> BlockText(response.val[i])])
                 ELSE response.val
    IN  Strip(SubTrailingLabel(SubLeadingLabel(content)))

-----------------------------------------------------------------------------
(* clean_response_content called on its own, on every raw result within    *)
(* the bounds, and then once more on the text it returned                  *)

Tokens == {L1, L2, LS, SP, NL, "x"}

RECURSIVE SeqsUpTo(_, _)
\* the sequences over S of length 0..n
SeqsUpTo(S, n) ==
    IF n = 0 THEN {<<>>}
    ELSE LET shorter == SeqsUpTo(S, n - 1)
         IN  shorter \cup {Append(t, e) : t \in shorter, e \in S}

FragmentTexts == {<<>>, <<"a", "b">>, <<"c", "d">>, <<L1, SP>>, <<NL, L2, SP, "x">>, <<SP>>}

Fragments ==
    {TextBlock(t) : t \in FragmentTexts} \cup {DictBlock(t) : t \in FragmentTexts}
    \cup {BareDict(<<"{'type': 'image'}">>), StrBlock(<<"c", "d">>), StrBlock(<<"7">>)}

RawResults ==
    {StrContent(t) : t \in SeqsUpTo(Tokens, MaxLen)}
    \cup {ListContent(bs) : bs \in SeqsUpTo(Fragments, MaxFragments)}
    \cup {OtherContent(<<"None">>)}

Idle == [stage |-> "idle", raw |-> StrContent(<<>>), cleaned |-> <<>>, again |-> <<>>]

NormInit ==
    /\ messages = <<>>
    /\ current_speaker = "agent_1"
    /\ turn_count = 0
    /\ max_turns = 1
    /\ summary_interval = 1
    /\ pc = "agent_1"
    /\ sent = <<>>
    /\ reply = <<>>
    /\ mainpc = "invoke"
    /\ result = <<>>
    /\ document = <<>>
    /\ \E r \in RawResults : norm = [Idle EXCEPT !.raw = r]

Normalize ==
    /\ norm.stage = "idle"
    /\ norm' = [norm EXCEPT !.stage = "cleaned",
                            !.cleaned = clean_response_content(norm.raw)]
    /\ UNCHANGED <<messages, current_speaker, turn_count, max_turns,
                   summary_interval, pc, sent, reply, mainpc, result, document>>

Renormalize ==
    /\ norm.stage = "cleaned"
    /\ norm' = [norm EXCEPT !.stage = "again",
                            !.again = clean_response_content(StrContent(norm.cleaned))]
    /\ UNCHANGED <<messages, current_speaker, turn_count, max_turns,
                   summary_interval, pc, sent, reply, mainpc, result, document>>

NormNext == Normalize \/ Renormalize

NormSpec == NormInit /\ [][NormNext]_vars

-----------------------------------------------------------------------------
(* Messages *)

\* AIMessage(content=...) stored in the state; by is the node that made it
AIMessage(content, by) == [type |-> "ai", content |-> content, by |-> by]

\* role under which a message object reaches the generation client;
\* src is the index of the transcript entry it replays (0: none)
Role(type) ==
    IF type = "system" THEN "system"
    ELSE IF type = "human" THEN "user" ELSE "assistant"

Out(type, content, src) == [role |-> Role(type), content |-> content, src |-> src]

\* the f-string system prompts; topic and turn numbers are not modelled
SystemPrompt(node) == <<"system_prompt:" , node>>
Seed == <<"Begin the discussion about: topic">>

State ==
    [messages |-> messages, current_speaker |-> current_speaker,
     turn_count |-> turn_count, max_turns |-> max_turns,
     summary_interval |-> summary_interval]

\* a messages field without the reducer: a node's return value overwrites it
add_messages_overwrite(left, right) == right

\* add_messages reducer of ConversationState.messages
add_messages(left, right) == left \o right

-----------------------------------------------------------------------------
(* Nodes *)

\* agent_1_node's message list with the seed instruction appended every turn
agent_1_messages_always_seed(state) ==
    <<Out("system", SystemPrompt("agent_1"), 0)>> \o
    [i \in 1..Len(state.messages) |->
        Out(state.messages[i].type, state.messages[i].content, i)] \o
    <<Out("human", Seed, 0)>>

agent_1_messages(state) ==
    <<Out("system", SystemPrompt("agent_1"), 0)>> \o
    (IF state.messages # <<>>
     THEN [i \in 1..Len(state.messages) |->
              Out(state.messages[i].type, state.messages[i].content, i)]
     ELSE <<Out("human", Seed, 0)>>)

\* agent_1_node that does not count a turn whose cleaned text is empty
agent_1_node_skips_empty(state, response) ==
    LET cleaned == clean_response_content(response)
        content == IF cleaned = <<>> THEN Fallback1 ELSE cleaned
    IN  [messages |-> <<AIMessage(<<L1, SP>> \o content, "agent_1")>>,
         current_speaker |-> "agent_2",
         turn_count |-> IF cleaned = <<>> THEN state.turn_count
                        ELSE state.turn_count + 1]

agent_1_node(state, response) ==
    LET cleaned == clean_response_content(response)
        content == IF cleaned = <<>> THEN Fallback1 ELSE cleaned
    IN  [messages |-> <<AIMessage(<<L1, SP>> \o content, "agent_1")>>,
         current_speaker |-> "agent_2",
         turn_count |-> state.turn_count + 1]

RECURSIVE agent_2_replay(_, _)
agent_2_replay(msgs, i) ==
    IF i > Len(msgs) THEN <<>>
    ELSE LET cleaned_content == Strip(SubLeadingLabel(msgs[i].content))
             this == IF Contains(msgs[i].content, L1)
                     THEN <<Out("human", cleaned_content, i)>>
                     ELSE IF Contains(msgs[i].content, L2)
                          THEN <<Out("ai", cleaned_content, i)>>
                          ELSE <<>>
         IN  this \o agent_2_replay(msgs, i + 1)

agent_2_messages(state) ==
    <<Out("system", SystemPrompt("agent_2"), 0)>> \o agent_2_replay(state.messages, 1)

\* agent_2_node that keeps an empty cleaned text
agent_2_node_no_fallback(state, response) ==
    [messages |-> <<AIMessage(<<L2, SP>> \o clean_response_content(response), "agent_2")>>,
     current_speaker |-> "agent_1",
     turn_count |-> state.turn_count + 1]

agent_2_node(state, response) ==
    LET cleaned == clean_response_content(response)
        content == IF cleaned = <<>> THEN Fallback2 ELSE cleaned
    IN  [messages |-> <<AIMessage(<<L2, SP>> \o content, "agent_2")>>,
         current_speaker |-> "agent_1",
         turn_count |-> state.turn_count + 1]

\* recent_messages taking one entry more than the interval
recent_messages_one_more(state) ==
    LET n == Len(state.messages)
        interval == state.summary_interval + 1
    IN  IF n >= interval THEN SubSeq(state.messages, n - interval + 1, n)
        ELSE state.messages

\* state["messages"][-interval:] if len(state["messages"]) >= interval else all
recent_messages(state) ==
    LET n == Len(state.messages)
        interval == state.summary_interval
    IN  IF n >= interval THEN SubSeq(state.messages, n - interval + 1, n)
        ELSE state.messages

summarizer_messages(state) ==
    LET recent == recent_messages(state)
        conversation_text ==
            Concat([i \in 1..Len(recent) |-> recent[i].content \o <<NL, NL>>])
    IN  <<Out("system", SystemPrompt("summarizer"), 0),
          Out("human", <<"Summarize the following conversation segment:", NL, NL>>
                       \o conversation_text, 0)>>

\* summarizer_node that reads turn_count under a wrong key and gets the default
summarizer_node_resets_turns(state, response) ==
    LET cleaned == clean_response_content(response)
        content == IF cleaned = <<>> THEN FallbackS ELSE cleaned
    IN  [messages |-> <<AIMessage(<<LS, SP>> \o content, "summarizer")>>,
         current_speaker |-> "agent_1",
         turn_count |-> 0]

\* summarizer_node that counts its own step as a turn
summarizer_node_counts_turn(state, response) ==
    LET cleaned == clean_response_content(response)
        content == IF cleaned = <<>> THEN FallbackS ELSE cleaned
    IN  [messages |-> <<AIMessage(<<LS, SP>> \o content, "summarizer")>>,
         current_speaker |-> "agent_1",
         turn_count |-> state.turn_count + 1]

summarizer_node(state, response) ==
    LET cleaned == clean_response_content(response)
        content == IF cleaned = <<>> THEN FallbackS ELSE cleaned
    IN  [messages |-> <<AIMessage(<<LS, SP>> \o content, "summarizer")>>,
         current_speaker |-> "agent_1",
         turn_count |-> state.turn_count]

-----------------------------------------------------------------------------
(* Routing *)

should_continue(state) ==
    IF state.turn_count >= state.max_turns THEN "end" ELSE "continue"

\* route_after_agent with > for >= in the max_turns test
route_after_agent_off_by_one(state) ==
    IF state.turn_count > state.max_turns THEN "end"
    ELSE IF state.turn_count > 0 /\ state.turn_count % state.summary_interval = 0
         THEN "summarize"
         ELSE "continue"

\* route_after_agent with the summary test ahead of the max_turns test
route_after_agent_summarize_first(state) ==
    IF state.turn_count > 0 /\ state.turn_count % state.summary_interval = 0
    THEN "summarize"
    ELSE IF state.turn_count >= state.max_turns THEN "end" ELSE "continue"

route_after_agent(state) ==
    IF state.turn_count >= state.max_turns THEN "end"
    ELSE IF state.turn_count > 0 /\ state.turn_count % state.summary_interval = 0
         THEN "summarize"
         ELSE "continue"

\* add_conditional_edges("agent_1", route_after_agent, {...})
agent_1_edges(r) ==
    IF r = "summarize" THEN "summarizer"
    ELSE IF r = "continue" THEN "agent_2" ELSE "END"

\* agent_2's edge map with "continue" leading back to agent_2
agent_2_edges_self(r) ==
    IF r = "summarize" THEN "summarizer"
    ELSE IF r = "continue" THEN "agent_2" ELSE "END"

\* add_conditional_edges("agent_2", route_after_agent, {...})
agent_2_edges(r) ==
    IF r = "summarize" THEN "summarizer"
    ELSE IF r = "continue" THEN "agent_1" ELSE "END"

\* the summarizer's edge map with "continue" leading to agent_2
summarizer_edges_to_agent_2(r) == IF r = "continue" THEN "agent_2" ELSE "END"

\* add_conditional_edges("summarizer", should_continue, {...})
summarizer_edges(r) == IF r = "continue" THEN "agent_1" ELSE "END"

-----------------------------------------------------------------------------
(* Renderer (run_agent.py) *)

RECURSIVE Remove(_, _)
\* s.replace(label, "")
Remove(s, label) ==
    IF s = <<>> THEN <<>>
    ELSE (IF Head(s) = label THEN <<>> ELSE <<Head(s)>>) \o Remove(Tail(s), label)

RECURSIVE render_messages(_, _, _)
\* the loop over result["messages"]: one section per message
render_messages(msgs, i, turn_number) ==
    IF i > Len(msgs) THEN <<>>
    ELSE LET c == msgs[i].content
         IN  IF Contains(c, L1)
             THEN <<[heading |-> "Turn", turn_number |-> turn_number + 1,
                     agent |-> "Agent 1 (GPT-4o)",
                     content |-> Strip(Remove(c, L1))]>>
                  \o render_messages(msgs, i + 1, turn_number + 1)
             ELSE IF Contains(c, L2)
             THEN <<[heading |-> "Turn", turn_number |-> turn_number + 1,
                     agent |-> "Agent 2 (Perplexity)",
                     content |-> Strip(Remove(c, L2))]>>
                  \o render_messages(msgs, i + 1, turn_number + 1)
             ELSE IF Contains(c, LS)
             THEN <<[heading |-> "Periodic Summary", turn_number |-> 0,
                     agent |-> "Summarizer (GPT-4o)",
                     content |-> Strip(Remove(c, LS))]>>
                  \o render_messages(msgs, i + 1, turn_number)
             ELSE <<[heading |-> "Unknown", turn_number |-> 0,
                     agent |-> "Unknown", content |-> c]>>
                  \o render_messages(msgs, i + 1, turn_number)

save_conversation_as_markdown(res) ==
    [total_turns |-> res.turn_count, sections |-> render_messages(res.messages, 1, 0)]

-----------------------------------------------------------------------------
(* The run: main() invokes the graph with an empty transcript *)

Init ==
    /\ messages = <<>>
    /\ current_speaker = "agent_1"
    /\ turn_count = 0
    /\ max_turns \in 1..MaxTurns
    /\ summary_interval \in 1..MaxInterval
    /\ pc = "agent_1"
    /\ sent = <<>>
    /\ reply = <<>>
    /\ mainpc = "invoke"
    /\ result = <<>>
    /\ document = <<>>
    /\ norm = Idle

\* the state after a node's return value has been merged into it
Merged(update) ==
    [messages |-> add_messages(messages, update.messages),
     current_speaker |-> update.current_speaker,
     turn_count |-> update.turn_count,
     max_turns |-> max_turns,
     summary_interval |-> summary_interval]

Agent1Step ==
    /\ pc = "agent_1"
    /\ \E r \in Responses :
          LET next == Merged(agent_1_node(State, r))
          IN  /\ sent' = agent_1_messages(State)
              /\ reply' = <<r>>
              /\ messages' = next.messages
              /\ current_speaker' = next.current_speaker
              /\ turn_count' = next.turn_count
              /\ pc' = agent_1_edges(route_after_agent(next))
    /\ UNCHANGED norm
    /\ UNCHANGED <<max_turns, summary_interval, mainpc, result, document>>

Agent2Step ==
    /\ pc = "agent_2"
    /\ \E r \in Responses :
          LET next == Merged(agent_2_node(State, r))
          IN  /\ sent' = agent_2_messages(State)
              /\ reply' = <<r>>
              /\ messages' = next.messages
              /\ current_speaker' = next.current_speaker
              /\ turn_count' = next.turn_count
              /\ pc' = agent_2_edges(route_after_agent(next))
    /\ UNCHANGED norm
    /\ UNCHANGED <<max_turns, summary_interval, mainpc, result, document>>

SummarizerStep ==
    /\ pc = "summarizer"
    /\ \E r \in Responses :
          LET next == Merged(summarizer_node(State, r))
          IN  /\ sent' = summarizer_messages(State)
              /\ reply' = <<r>>
              /\ messages' = next.messages
              /\ current_speaker' = next.current_speaker
              /\ turn_count' = next.turn_count
              /\ pc' = summarizer_edges(should_continue(next))
    /\ UNCHANGED norm
    /\ UNCHANGED <<max_turns, summary_interval, mainpc, result, document>>

\* model.invoke raises: nothing in agent.py or main() catches it
node_messages(node, state) ==
    IF node = "agent_1" THEN agent_1_messages(state)
    ELSE IF node = "agent_2" THEN agent_2_messages(state)
    ELSE summarizer_messages(state)

\* a failure that is swallowed: the graph ends and hands back its state
GenerationFailure_swallowed ==
    /\ pc \in {"agent_1", "agent_2", "summarizer"}
    /\ sent' = node_messages(pc, State)
    /\ reply' = <<>>
    /\ pc' = "END"
    /\ UNCHANGED norm
    /\ UNCHANGED <<messages, current_speaker, turn_count, max_turns,
                   summary_interval, mainpc, result, document>>

GenerationFailure ==
    /\ pc \in {"agent_1", "agent_2", "summarizer"}
    /\ sent' = node_messages(pc, State)
    /\ reply' = <<>>
    /\ pc' = "aborted"
    /\ mainpc' = "raised"
    /\ UNCHANGED norm
    /\ UNCHANGED <<messages, current_speaker, turn_count, max_turns,
                   summary_interval, result, document>>

\* app.invoke returns the final state to main()
Return ==
    /\ pc = "END"
    /\ mainpc = "invoke"
    /\ result' = <<State>>
    /\ mainpc' = "returned"
    /\ UNCHANGED norm
    /\ UNCHANGED <<messages, current_speaker, turn_count, max_turns,
                   summary_interval, pc, sent, reply, document>>

Save ==
    /\ mainpc = "returned"
    /\ document' = <<save_conversation_as_markdown(result[1])>>
    /\ mainpc' = "saved"
    /\ UNCHANGED norm
    /\ UNCHANGED <<messages, current_speaker, turn_count, max_turns,
                   summary_interval, pc, sent, reply, result>>

\* a generation call of ConversationSummarizer raises before the file is written
SaveFailure ==
    /\ mainpc = "returned"
    /\ mainpc' = "raised"
    /\ UNCHANGED norm
    /\ UNCHANGED <<messages, current_speaker, turn_count, max_turns,
                   summary_interval, pc, sent, reply, result, document>>

Next ==
    \/ Agent1Step
    \/ Agent2Step
    \/ SummarizerStep
    \/ GenerationFailure
    \/ Return
    \/ Save
    \/ SaveFailure

Spec == Init /\ [][Next]_vars

\* the run in which every generation call returns; the graph engine and
\* main() are one synchronous thread that takes its next step until done
NextReturning ==
    \/ Agent1Step
    \/ Agent2Step
    \/ SummarizerStep
    \/ Return
    \/ Save

FairInit == Init /\ max_turns <= MaxFairTurns

FairSpec == FairInit /\ [][NextReturning]_vars /\ WF_vars(NextReturning)

TypeOK ==
    /\ turn_count \in 0..(MaxTurns + 1)
    /\ pc \in {"agent_1", "agent_2", "summarizer", "END", "aborted"}
    /\ mainpc \in {"invoke", "returned", "saved", "raised"}
    /\ current_speaker \in {"agent_1", "agent_2"}
    /\ Len(result) <= 1
    /\ Len(document) <= 1

-----------------------------------------------------------------------------
(* Properties *)

Participants == {"agent_1", "agent_2"}
Nodes == {"agent_1", "agent_2", "summarizer"}

\* number of entries of msgs[1..n] made by a node of the set S
RECURSIVE CountBy(_, _, _)
CountBy(msgs, n, S) ==
    IF n = 0 THEN 0
    ELSE CountBy(msgs, n - 1, S) + (IF msgs[n].by \in S THEN 1 ELSE 0)

Speakers == [i \in 1..Len(messages) |-> messages[i].by]

\* a node has run to completion in this step
Stepped == Len(messages') = Len(messages) + 1

Other(node) == IF node = "agent_1" THEN "agent_2" ELSE "agent_1"

\* C1: a run started with turn_count = 0 and an empty transcript is at END
\* exactly when turn_count has reached max_turns; no node is scheduled with
\* turn_count >= max_turns, so there are never more than max_turns
\* participant entries.
C1_EndsExactlyAtMaxTurns ==
    /\ (pc = "END") <=> (turn_count = max_turns)
    /\ pc \in Nodes => turn_count < max_turns
    /\ turn_count <= max_turns
    /\ CountBy(messages, Len(messages), Participants) <= max_turns

C1_Witness ==
    /\ pc = "END" /\ max_turns = 3 /\ summary_interval = 2
    /\ turn_count = 3 /\ mainpc = "returned"

\* C2 as stated: a completed run has max_turns \div summary_interval
\* Summarizer entries, the j-th right after the participant entry that made
\* turn_count j * summary_interval; max_turns = 4 with summary_interval = 4
\* ends with the five entries A, B, A, B, Summarizer.
C2_SummaryCountAsStated ==
    pc = "END" =>
        /\ CountBy(messages, Len(messages), {"summarizer"})
              = max_turns \div summary_interval
        /\ \A j \in 1..(max_turns \div summary_interval) :
              LET p == j * summary_interval + j
              IN  /\ p <= Len(messages)
                  /\ messages[p].by = "summarizer"
                  /\ messages[p - 1].by \in Participants
                  /\ CountBy(messages, p - 1, Participants) = j * summary_interval
        /\ (max_turns = 4 /\ summary_interval = 4) =>
              /\ Speakers = <<"agent_1", "agent_2", "agent_1", "agent_2", "summarizer">>
              /\ turn_count = 4

\* C2 amended: a completed run has (max_turns - 1) \div summary_interval
\* Summarizer entries, the j-th right after the participant entry that made
\* turn_count j * summary_interval (j * summary_interval < max_turns);
\* max_turns = 4 with summary_interval = 4 ends with the four entries
\* A, B, A, B and turn_count = 4.
C2_SummaryCount ==
    pc = "END" =>
        /\ CountBy(messages, Len(messages), {"summarizer"})
              = (max_turns - 1) \div summary_interval
        /\ \A j \in 1..((max_turns - 1) \div summary_interval) :
              LET p == j * summary_interval + j
              IN  /\ p <= Len(messages)
                  /\ messages[p].by = "summarizer"
                  /\ messages[p - 1].by \in Participants
                  /\ CountBy(messages, p - 1, Participants) = j * summary_interval
        /\ (max_turns = 4 /\ summary_interval = 4) =>
              /\ Speakers = <<"agent_1", "agent_2", "agent_1", "agent_2">>
              /\ turn_count = 4

C2_Witness ==
    /\ pc = "END" /\ max_turns = 4 /\ summary_interval = 2
    /\ Speakers = <<"agent_1", "agent_2", "summarizer", "agent_1", "agent_2">>

\* C3: turn_count is the number of participant entries of the transcript;
\* a participant step adds exactly 1 to it, a Summarizer step leaves it.
C3_TurnCountCountsParticipants ==
    /\ [](turn_count = CountBy(messages, Len(messages), Participants))
    /\ [][Stepped =>
             /\ pc \in Participants => turn_count' = turn_count + 1
             /\ pc = "summarizer" => turn_count' = turn_count]_vars

C3_Witness ==
    /\ Len(messages) = 4 /\ messages[3].by = "summarizer"
    /\ messages[4].by = "agent_1" /\ turn_count = 3

\* C4: a Summarizer step is followed only by END (when turn_count >=
\* max_turns) or by Participant A; a Summarizer entry is never directly
\* followed by a Participant B entry or another Summarizer entry.
C4_SummaryResumesWithA ==
    /\ [][(pc = "summarizer" /\ Stepped) =>
             pc' = IF turn_count' >= max_turns THEN "END" ELSE "agent_1"]_vars
    /\ [](\A i \in 1..(Len(messages) - 1) :
             messages[i].by = "summarizer" => messages[i + 1].by = "agent_1")

C4_Witness ==
    /\ Len(messages) = 5 /\ summary_interval = 3
    /\ messages[3].by = "agent_1" /\ messages[4].by = "summarizer"
    /\ messages[5].by = "agent_1"

\* C5: after a participant step the next node follows from the new
\* turn_count: END if turn_count >= max_turns, else the Summarizer if
\* turn_count > 0 and turn_count mod summary_interval = 0, else the other
\* participant; the first entry is Participant A's and no two adjacent
\* entries are by the same participant.
C5_RoutingPriority ==
    /\ [][(pc \in Participants /\ Stepped) =>
             pc' = IF turn_count' >= max_turns THEN "END"
                   ELSE IF turn_count' > 0 /\ turn_count' % summary_interval = 0
                        THEN "summarizer"
                        ELSE Other(pc)]_vars
    /\ [](/\ messages # <<>> => messages[1].by = "agent_1"
          /\ \A i \in 1..(Len(messages) - 1) :
                messages[i].by \in Participants
                    => messages[i + 1].by # messages[i].by)

C5_Witness ==
    /\ Len(messages) = 3 /\ max_turns = 4 /\ summary_interval = 3
    /\ Speakers = <<"agent_1", "agent_2", "agent_1">> /\ pc = "summarizer"

\* C6: with max_turns = 1, whatever summary_interval is, the completed run
\* has the single entry of Participant A, turn_count = 1, and the
\* Summarizer never runs.
C6_SingleTurnRun ==
    max_turns = 1 =>
        /\ pc # "summarizer"
        /\ CountBy(messages, Len(messages), {"summarizer"}) = 0
        /\ pc = "END" => /\ Speakers = <<"agent_1">>
                         /\ turn_count = 1

C6_Witness ==
    /\ max_turns = 1 /\ summary_interval = 1 /\ pc = "END"
    /\ Len(messages) = 1 /\ mainpc = "saved"

\* C7: in the history Participant A sends, every Participant A entry has
\* role assistant and every Participant B entry role user; in the history
\* Participant B sends, every Participant B entry has role assistant and
\* every Participant A entry role user.
C7_RolesAreParticipantRelative ==
    [][(pc \in Participants) =>
         \A k \in 1..Len(sent') :
            (sent'[k].src > 0 /\ messages[sent'[k].src].by \in Participants) =>
                sent'[k].role = (IF messages[sent'[k].src].by = pc
                                 THEN "assistant" ELSE "user")]_vars

\* C8: every transcript entry is part of the history a participant sends,
\* and every Summarizer entry is sent with role user.
C8_SummariesReachParticipants ==
    [][(pc \in Participants) =>
         \A i \in 1..Len(messages) :
            /\ \E k \in 1..Len(sent') : sent'[k].src = i
            /\ messages[i].by = "summarizer" =>
                  \A k \in 1..Len(sent') :
                     sent'[k].src = i => (sent'[k].role = "user")]_vars

AllSpace(s) == \A i \in 1..Len(s) : IsSpace(s[i])

\* the raw text is empty, only whitespace, or a label with nothing after it
NothingUsable(r) ==
    \/ clean_response_content(r) = <<>>
    \/ /\ r.kind = "str"
       /\ \/ AllSpace(r.val)
          \/ r.val # <<>> /\ IsAgentLabel(Head(r.val)) /\ AllSpace(Tail(r.val))

FallbackOf(node) ==
    IF node = "agent_1" THEN <<L1, SP>> \o Fallback1
    ELSE IF node = "agent_2" THEN <<L2, SP>> \o Fallback2
    ELSE <<LS, SP>> \o FallbackS

\* C9: when a generation call returns nothing usable the step completes:
\* the appended entry is the acting role's own fallback sentence, a
\* participant step still adds 1 to turn_count, and the next node is the
\* one any other response would lead to.
C9_EmptyResponseFallback ==
    /\ [](FallbackOf("agent_1")[3] # FallbackOf("agent_2")[3]
          /\ FallbackOf("agent_1")[3] # FallbackOf("summarizer")[3]
          /\ FallbackOf("agent_2")[3] # FallbackOf("summarizer")[3])
    /\ [][(pc \in Nodes /\ reply' # <<>> /\ NothingUsable(reply'[1])) =>
             /\ Stepped
             /\ messages'[Len(messages')].by = pc
             /\ messages'[Len(messages')].content = FallbackOf(pc)
             /\ pc \in Participants =>
                   /\ turn_count' = turn_count + 1
                   /\ pc' = IF turn_count' >= max_turns THEN "END"
                            ELSE IF turn_count' % summary_interval = 0
                                 THEN "summarizer"
                                 ELSE Other(pc)
             /\ pc = "summarizer" =>
                   /\ turn_count' = turn_count
                   /\ pc' = "agent_1"]_vars

C9_Witness ==
    /\ Len(messages) = 2 /\ turn_count = 2
    /\ reply = <<StrContent(<<SP, NL>>)>>
    /\ messages[2] = AIMessage(<<L2, SP>> \o Fallback2, "agent_2")

\* C10: a failed generation call aborts the run at that step: no entry is
\* appended for it, nothing runs afterwards (no retry, no later step), and
\* main() gets neither a final state nor a document.
C10_FailureAbortsRun ==
    /\ [][(pc \in Nodes /\ reply' = <<>>) =>
             /\ pc' = "aborted"
             /\ mainpc' = "raised"
             /\ messages' = messages
             /\ turn_count' = turn_count]_vars
    /\ [][(pc # "aborted")]_vars
    /\ [](pc = "aborted" => result = <<>> /\ document = <<>>)

C10_Witness ==
    /\ pc = "aborted" /\ mainpc = "raised" /\ reply = <<>>
    /\ Len(messages) = 3 /\ messages[3].by = "summarizer"
    /\ Len(sent) > 1 /\ sent[1].content = SystemPrompt("agent_1")

\* C11: when every generation call returns, the run reaches END after a
\* bounded number of steps and main() receives the accumulated state; END is
\* terminal, and a step that leaves turn_count unchanged is never followed
\* by another one.
C11_RunTerminates ==
    /\ <>(pc = "END" /\ mainpc = "returned" /\ result = <<State>>)
    /\ [](Len(messages) < 2 * max_turns)
    /\ [][(pc = "END") =>
             (pc' = "END" /\ messages' = messages /\ turn_count' = turn_count)]_vars
    /\ [][(Stepped /\ turn_count' = turn_count) => (pc' \in Participants)]_vars

C11_Witness ==
    /\ pc = "END" /\ mainpc = "saved" /\ max_turns = 3 /\ summary_interval = 1
    /\ Len(messages) = 5 /\ result = <<State>>

LabelOf(node) ==
    IF node = "agent_1" THEN L1 ELSE IF node = "agent_2" THEN L2 ELSE LS

\* C12: the transcript is append-only: a step of any node adds exactly one
\* entry, tagged with the acting speaker, and the transcript before the step
\* is a prefix of the transcript after it.
C12_TranscriptAppendOnly ==
    [][/\ Len(messages') \in {Len(messages), Len(messages) + 1}
       /\ SubSeq(messages', 1, Len(messages)) = messages
       /\ (pc \in Nodes /\ reply' # <<>>) =>
             /\ Stepped
             /\ messages'[Len(messages')].by = pc
             /\ Head(messages'[Len(messages')].content) = LabelOf(pc)]_vars

C12_Witness ==
    /\ Len(messages) = 4 /\ messages[3].by = "summarizer"
    /\ Head(messages[3].content) = LS /\ Head(messages[4].content) = L1

\* C16: Participant A runs on an empty transcript exactly when turn_count
\* is 0, and then sends the seed instruction instead of a replay;
\* Participant B and the Summarizer never run on an empty transcript.
C16_SeedOnlyOnFirstTurn ==
    /\ [](pc = "agent_1" => (messages = <<>> <=> turn_count = 0))
    /\ [](pc \in {"agent_2", "summarizer"} => messages # <<>>)
    /\ [][(pc = "agent_1") =>
             /\ (\E k \in 1..Len(sent') : sent'[k].content = Seed)
                   <=> (turn_count = 0)
             /\ (\E k \in 1..Len(sent') : sent'[k].src > 0)
                   <=> (turn_count > 0)]_vars

C16_Witness ==
    /\ Len(messages) = 1 /\ turn_count = 1 /\ pc = "agent_2"
    /\ Len(sent) = 2 /\ sent[2].content = Seed /\ sent[2].role = "user"

\* C17: the Summarizer only runs with turn_count < max_turns, so the
\* decision after it is always to continue with Participant A, never END,
\* and a completed run's transcript ends with a participant entry.
C17_SummarizerNeverLast ==
    /\ [](pc = "summarizer" => turn_count < max_turns)
    /\ [][(pc = "summarizer" /\ Stepped) =>
             (turn_count' < max_turns /\ pc' = "agent_1")]_vars
    /\ [](pc = "END" =>
             /\ messages # <<>>
             /\ messages[Len(messages)].by \in Participants)

C17_Witness ==
    /\ pc = "END" /\ max_turns = 3 /\ summary_interval = 1
    /\ Speakers = <<"agent_1", "summarizer", "agent_1", "summarizer", "agent_1">>

\* C18: when the Summarizer runs the transcript has at least
\* summary_interval entries, and the text it sends is that of the last
\* summary_interval entries, which are exactly the participant turns made
\* since the previous Summarizer entry (or since the start).
C18_SummaryWindow ==
    /\ [](pc = "summarizer" =>
             LET n == Len(messages)
                 K == summary_interval
             IN  /\ n >= K
                 /\ \A i \in (n - K + 1)..n : messages[i].by \in Participants
                 /\ n = K \/ messages[n - K].by = "summarizer")
    /\ [][(pc = "summarizer") =>
             LET n == Len(messages)
                 K == summary_interval
             IN  sent'[2].content =
                    <<"Summarize the following conversation segment:", NL, NL>> \o
                    Concat([i \in 1..K |-> messages[n - K + i].content \o <<NL, NL>>])]_vars

C18_Witness ==
    /\ pc = "agent_1" /\ summary_interval = 1 /\ Len(messages) = 4
    /\ messages[4].by = "summarizer" /\ sent[1].content = SystemPrompt("summarizer")

CountA == CountBy(messages, Len(messages), {"agent_1"})
CountB == CountBy(messages, Len(messages), {"agent_2"})
CountS == CountBy(messages, Len(messages), {"summarizer"})

\* C19 as stated: in a completed run the numbers of Participant A and
\* Participant B entries differ by at most one, and Participant B has an
\* entry whenever max_turns >= 2.
C19_BalanceAsStated ==
    pc = "END" =>
        /\ CountA - CountB \in {-1, 0, 1}
        /\ max_turns >= 2 => CountB >= 1

\* C19 amended: in a completed run Participant A has at least as many
\* entries as Participant B and at most one more than B plus the number of
\* Summarizer entries; the two numbers differ by at most one when
\* summary_interval is even or max_turns <= summary_interval; Participant B
\* has an entry whenever max_turns >= 2 and summary_interval >= 2.
C19_Balance ==
    pc = "END" =>
        /\ CountA - CountB \in 0..(1 + CountS)
        /\ (summary_interval % 2 = 0 \/ max_turns <= summary_interval)
              => CountA - CountB \in {0, 1}
        /\ (max_turns >= 2 /\ summary_interval >= 2) => CountB >= 1

C19_Witness ==
    /\ pc = "END" /\ max_turns = 4 /\ summary_interval = 3
    /\ CountA = 3 /\ CountB = 1 /\ CountS = 1

\* the speaker of the p-th entry of a run with summary interval K
ExpectedSpeaker(p, K) ==
    LET q == (p - 1) % (K + 1)
    IN  IF q = K THEN "summarizer"
        ELSE IF q % 2 = 0 THEN "agent_1" ELSE "agent_2"

\* C20: the sequence of speakers, the node that runs next and the final
\* turn_count are functions of max_turns, summary_interval and the number
\* of entries alone, so runs that differ only in the generated texts take
\* the same route.
C20_RoutingIgnoresText ==
    /\ \A p \in 1..Len(messages) :
          messages[p].by = ExpectedSpeaker(p, summary_interval)
    /\ pc \in Nodes => pc = ExpectedSpeaker(Len(messages) + 1, summary_interval)
    /\ pc = "END" =>
          /\ turn_count = max_turns
          /\ Len(messages) = max_turns + (max_turns - 1) \div summary_interval

C20_Witness ==
    /\ pc = "END" /\ max_turns = 3 /\ summary_interval = 2
    /\ messages[1].content = <<L1, SP>> \o Fallback1
    /\ messages[2].content = <<L2, SP, L1, SP, "x">>
    /\ messages[3].content = <<LS, SP, "x">>

Labels == {L1, L2, LS}

\* C13: clean_response_content is idempotent on strings: applied to its own
\* output it returns that output unchanged.
C13_NormalizerIdempotent ==
    (norm.stage = "again" /\ norm.raw.kind = "str") => norm.again = norm.cleaned

\* C14: for each of the three speaker labels, a leading "[L]: " is removed
\* and everything from a later label that is followed by more text is
\* discarded, so the cleaned text carries no speaker label.
C14_LabelsStripped ==
    (norm.stage # "idle" /\ norm.raw.kind = "str") =>
        LET t == norm.raw.val
            leading == Len(t) >= 2 /\ t[1] \in Labels /\ t[2] = SP
            wellPlaced ==
                \A i \in 1..Len(t) :
                    t[i] \in Labels => (i = 1 /\ leading) \/ (1 < i /\ i < Len(t))
        IN  wellPlaced => \A i \in 1..Len(norm.cleaned) : norm.cleaned[i] \notin Labels

\* the text of one fragment: its text field if it is a structured object
\* carrying one, its generic string form otherwise
FragmentText(f) == IF f.shape \in {"attr", "dict"} THEN f.text ELSE f.repr

SectionSpeaker(section) ==
    IF section.agent = "Agent 1 (GPT-4o)" THEN "agent_1"
    ELSE IF section.agent = "Agent 2 (Perplexity)" THEN "agent_2"
    ELSE IF section.agent = "Summarizer (GPT-4o)" THEN "summarizer"
    ELSE "unknown"

RECURSIVE CountTurns(_, _)
\* number of numbered turns among the first n sections
CountTurns(sections, n) ==
    IF n = 0 THEN 0
    ELSE CountTurns(sections, n - 1) + (IF sections[n].heading = "Turn" THEN 1 ELSE 0)

\* C21: the speaker read back from an entry's text agrees with the node
\* that appended it, both in Participant B's history (user for Participant
\* A's entries, assistant for its own) and in the rendered document, so the
\* document has as many numbered turns as the final turn_count.
C21_AttributionAgrees ==
    /\ (Len(sent) >= 1 /\ sent[1].content = SystemPrompt("agent_2")) =>
          \A k \in 2..Len(sent) :
             messages[sent[k].src].by =
                (IF sent[k].role = "user" THEN "agent_1" ELSE "agent_2")
    /\ document # <<>> =>
          LET sections == document[1].sections
              entries == result[1].messages
          IN  /\ Len(sections) = Len(entries)
              /\ \A i \in 1..Len(sections) :
                    SectionSpeaker(sections[i]) = entries[i].by
              /\ CountTurns(sections, Len(sections)) = result[1].turn_count

=============================================================================
